---- MODULE Spec2Model ----
(***************************************************************************)
(* A model of lib/hersheytext.js: the path normaliser (cleanD, glyphScale), *)
(* the font resolver (getFontData) and the two renderers (renderTextSVG,   *)
(* renderTextArray).                                                       *)
(*                                                                         *)
(* JavaScript strings are sequences of one-character strings.  JavaScript  *)
(* numbers are records [nan, v]: NaN, or an exact value v counted in a unit *)
(* named at each use (units, tenths, halves or hundredths); binary floating *)
(* point error is not modelled.                                            *)
(***************************************************************************)
EXTENDS Integers, Sequences, FiniteSets, TLC

VARIABLES pc, fn, text, options, d, result

vars == <<pc, fn, text, options, d, result>>

\* Longest path-data string given to cleanD / glyphScale.
MaxDLen == 6

\* Longest text given to the renderers.
MaxTextLen == 3

(***************************************************************************)
(* Strings                                                                 *)
(***************************************************************************)

\* All strings over alphabet A of length at most n.
StringsUpTo(A, n) == UNION {[1..k -> A] : k \in 0..n}

\* The characters path-data strings are drawn from: a command letter, a
\* digit, and the three characters cleanD treats as number parts.
PathChars == {"M", "1", "-", ".", " "}

\* Number.parseInt(char, 10) is a number exactly for a decimal digit.
IsDigit(char) == char \in {"0", "1", "2", "3", "4", "5", "6", "7", "8", "9"}

\* [' ', '.', '-'].includes(char)
IsNumberPart(char) == char \in {" ", ".", "-"}

\* String.prototype.trim, for strings whose only white space is the blank.
RECURSIVE trim(_)
trim(s) ==
  IF s = <<>> THEN s
  ELSE IF Head(s) = " " THEN trim(Tail(s))
  ELSE IF s[Len(s)] = " " THEN trim(SubSeq(s, 1, Len(s) - 1))
  ELSE s

\* s.replace(/  /g, ' '): every non-overlapping pair of blanks, scanning from
\* the left, becomes one blank; the result is not scanned again.
RECURSIVE replaceTwoBlanks(_)
replaceTwoBlanks(s) ==
  IF Len(s) < 2 THEN s
  ELSE IF s[1] = " " /\ s[2] = " "
       THEN <<" ">> \o replaceTwoBlanks(SubSeq(s, 3, Len(s)))
       ELSE <<s[1]>> \o replaceTwoBlanks(Tail(s))

\* s.split(sep): the pieces between the occurrences of the one-character
\* separator; the empty string splits into one empty piece.
RECURSIVE splitFrom(_, _, _)
splitFrom(s, sep, cur) ==
  IF s = <<>> THEN <<cur>>
  ELSE IF Head(s) = sep THEN <<cur>> \o splitFrom(Tail(s), sep, <<>>)
  ELSE splitFrom(Tail(s), sep, Append(cur, Head(s)))

split(s, sep) == splitFrom(s, sep, <<>>)

(***************************************************************************)
(* cleanD                                                                  *)
(***************************************************************************)

\* The body without the blank between a letter and the digit after it.
cleanDStepLetterDigitJoined(char, st) ==
  IF ~IsNumberPart(char)
  THEN IF IsDigit(char)
       THEN [out |-> Append(st.out, char), lastGood |-> TRUE]
       ELSE [out |-> st.out \o <<" ", char>>, lastGood |-> FALSE]
  ELSE [out |-> (IF char = "-" /\ ~st.lastGood THEN Append(st.out, " ") ELSE st.out)
                  \o <<char>>,
        lastGood |-> TRUE]

\* The forEach body of cleanD for one character: st holds the characters
\* pushed so far (out) and the lastGood flag.
cleanDStep(char, st) ==
  IF ~IsNumberPart(char)
  THEN IF IsDigit(char)
       THEN [out |-> (IF ~st.lastGood THEN Append(st.out, " ") ELSE st.out) \o <<char>>,
             lastGood |-> TRUE]
       ELSE [out |-> st.out \o <<" ", char>>, lastGood |-> FALSE]
  ELSE [out |-> (IF char = "-" /\ ~st.lastGood THEN Append(st.out, " ") ELSE st.out)
                  \o <<char>>,
        lastGood |-> TRUE]

\* [...d].forEach of cleanD, from character i on.
RECURSIVE cleanDLoop(_, _, _)
cleanDLoop(str, i, st) ==
  IF i > Len(str) THEN st.out
  ELSE cleanDLoop(str, i + 1, cleanDStep(str[i], st))

cleanD(str) ==
  replaceTwoBlanks(trim(cleanDLoop(str, 1, [out |-> <<>>, lastGood |-> TRUE])))

(***************************************************************************)
(* glyphScale                                                              *)
(***************************************************************************)

NaN == [nan |-> TRUE, v |-> 0]

Num(n) == [nan |-> FALSE, v |-> n]

\* The number of leading decimal digits of s.
RECURSIVE digitRun(_)
digitRun(s) ==
  IF s = <<>> \/ ~IsDigit(Head(s)) THEN 0 ELSE 1 + digitRun(Tail(s))

DigitValue(char) ==
  CASE char = "0" -> 0 [] char = "1" -> 1 [] char = "2" -> 2 [] char = "3" -> 3
    [] char = "4" -> 4 [] char = "5" -> 5 [] char = "6" -> 6 [] char = "7" -> 7
    [] char = "8" -> 8 [] char = "9" -> 9

\* The value of a run of decimal digits (0 for the empty run).
RECURSIVE digitsValue(_)
digitsValue(s) ==
  IF s = <<>> THEN 0 ELSE 10 * digitsValue(SubSeq(s, 1, Len(s) - 1)) + DigitValue(s[Len(s)])

RECURSIVE pow10(_)
pow10(k) == IF k = 0 THEN 1 ELSE 10 * pow10(k - 1)

\* The value read from the parts of a token: its sign, the digits before
\* the period and the digits after it.
floatOf(negative, intDigits, fracDigits) ==
  IF intDigits = <<>> /\ fracDigits = <<>>
  THEN [nan |-> TRUE, num |-> 0, den |-> 1]
  ELSE [nan |-> FALSE,
        num |-> (IF negative THEN -1 ELSE 1)
                  * (digitsValue(intDigits) * pow10(Len(fracDigits))
                       + digitsValue(fracDigits)),
        den |-> pow10(Len(fracDigits))]

\* The digits after the period that rest begins with, if it begins with one.
fractionDigits(rest) ==
  IF rest # <<>> /\ Head(rest) = "."
  THEN SubSeq(rest, 2, 1 + digitRun(Tail(rest)))
  ELSE <<>>

unsignedFloat(negative, body) ==
  floatOf(negative, SubSeq(body, 1, digitRun(body)),
          fractionDigits(SubSeq(body, digitRun(body) + 1, Len(body))))

\* Number.parseFloat(val) for a token without white space or exponent: the
\* longest prefix  [+-] digits [. digits]  or  [+-] . digits  is read, what
\* follows is ignored, and no such prefix gives NaN.  The value is num / den.
parseFloat(val) ==
  IF val # <<>> /\ Head(val) \in {"-", "+"}
  THEN unsignedFloat(Head(val) = "-", Tail(val))
  ELSE unsignedFloat(FALSE, val)

\* Math.round(num / den): the nearest integer, a half rounding up.
MathRound(num, den) == (2 * num + den) \div (2 * den)

\* const glyphScaling = 0.1, as the fraction ScaleNum / ScaleDen.
ScaleNum == 1
ScaleDen == 10

\* An entry of glyphScale's out array: an operation pushed as it is, or a
\* number pushed after Math.round(... * 100) / 100, kept in hundredths.
OpToken(s) == [op |-> TRUE, s |-> s, h |-> 0]
NumToken(h) == [op |-> FALSE, s |-> <<>>, h |-> h]

\* Math.round(pf * scale * 100), the X branch.
scaleX(pf) == MathRound(pf.num * ScaleNum * 100, pf.den * ScaleDen)

\* Math.round((height - pf) * scale * 100), the Y branch.
scaleY(pf, height) ==
  MathRound((height * pf.den - pf.num) * ScaleNum * 100, pf.den * ScaleDen)

\* The forEach body of glyphScale for the token val with its parsed value
\* pf: st holds out and lastCoord.  A token that is no number and is longer
\* than one character calls val.subStr, which is not a function.
glyphScaleStep(val, pf, st, height) ==
  IF pf.nan
  THEN IF Len(val) > 1
       THEN [st EXCEPT !.kind = "TypeError"]
       ELSE [st EXCEPT !.out = Append(@, OpToken(val)), !.lastCoord = "x"]
  ELSE IF st.lastCoord = "x"
       THEN [st EXCEPT !.out = Append(@, NumToken(scaleX(pf))), !.lastCoord = "y"]
       ELSE [st EXCEPT !.out = Append(@, NumToken(scaleY(pf, height)))]

\* vals.forEach of glyphScale, from token i on; a TypeError ends it.
RECURSIVE glyphScaleLoop(_, _, _, _)
glyphScaleLoop(vals, i, st, height) ==
  IF i > Len(vals) \/ st.kind = "TypeError" THEN [kind |-> st.kind, out |-> st.out]
  ELSE glyphScaleLoop(vals, i + 1,
         glyphScaleStep(vals[i], parseFloat(vals[i]), st, height), height)

\* glyphScale(d, height, scale) with scale = glyphScaling.  A falsy d (the
\* empty string here) is returned as it is.
glyphScale(str, height) ==
  IF str = <<>> THEN [kind |-> "unchanged", out |-> <<>>]
  ELSE glyphScaleLoop(split(cleanD(str), " "), 1,
         [kind |-> "ok", out |-> <<>>, lastCoord |-> "x"], height)

(***************************************************************************)
(* JavaScript numbers that may be NaN                                      *)
(***************************************************************************)

JsAdd(a, b) == IF a.nan \/ b.nan THEN NaN ELSE Num(a.v + b.v)

\* a > b: false when either side is NaN.
JsGreater(a, b) == ~a.nan /\ ~b.nan /\ a.v > b.v

\* attr * glyphScaling for a glyph attribute, in tenths: the attribute is a
\* numeric string, or absent (undefined * 0.1 is NaN).
TimesGlyphScaling(attr) ==
  IF attr.absent THEN NaN ELSE Num((attr.n * ScaleNum * 10) \div ScaleDen)

\* parseInt(o, 10) of a non-negative number o held in tenths: its integer
\* part, and NaN for NaN.
parseInt(o) == IF o.nan THEN NaN ELSE Num(o.v \div 10)

(***************************************************************************)
(* The font tables: hersheytext.min.json and svg_fonts/                    *)
(***************************************************************************)

\* The characters texts are drawn from.  A and w are letters; the others
\* are the blank, line feed and carriage return.
TextChars == {"A", "w", " ", "\n", "\r"}

\* char.charCodeAt(0)
charCodeAt(char) ==
  CASE char = "A" -> 65 [] char = "w" -> 119 [] char = " " -> 32
    [] char = "\n" -> 10 [] char = "\r" -> 13

Attr(n) == [absent |-> FALSE, n |-> n]
NoAttr == [absent |-> TRUE, n |-> 0]

\* exports.fonts, the content of a data file: here one compact font with
\* sample glyphs.  chars[i] is the glyph of code i + 33, for the printable
\* ASCII codes 33 .. 126; o is the glyph's advance.
CompactFonts ==
  [futural |->
    [name  |-> "Sans 1-stroke",
     chars |-> [i \in 0..(126 - 33) |->
                 [d |-> <<"M", "1", ",", "1", " ", "L", "5", ",", "9">>,
                  o |-> Num(10 * (8 + (i % 7)))]]]]

\* exports.svgFonts and the font file each entry names (data files: here one
\* outline font with sample glyphs): the <font-face>
\* attributes and the <glyph> elements in document order.  The file declares
\* a space glyph; the glyph of w declares no horiz-adv-x of its own.
OutlineFonts ==
  [ems_allure |->
    [name   |-> "EMS Allure",
     info   |-> [unitsPerEm |-> 1000],
     glyphs |-> << [unicode |-> " ", name |-> "space", advx |-> Attr(378),
                    d |-> <<>>],
                   [unicode |-> "A", name |-> "A", advx |-> Attr(737),
                    d |-> <<"M", "1", " ", "5", "L", "-", "5", " ", "1", "1">>],
                   [unicode |-> "w", name |-> "w", advx |-> NoAttr,
                    d |-> <<"M", "5", " ", "1", "5">>] >>]]

\* The height glyphScale is given: the font's units-per-em.
UnitsPerEm == OutlineFonts.ems_allure.info.unitsPerEm

\* Names every object inherits from Object.prototype: table[name] is a
\* function for them, though they are keys of no table.
InheritedKeys == {"constructor", "toString", "hasOwnProperty"}

\* The font identifiers render options are drawn from.
FontNames == {"futural", "ems_allure", "nofont", "constructor"}

\* Whether table[fontName] is truthy: an own entry or an inherited member.
Truthy(table, fontName) == fontName \in DOMAIN table \/ fontName \in InheritedKeys

(***************************************************************************)
(* getFontData                                                             *)
(***************************************************************************)

\* The entry getFontData stores for a glyph, given its scaled path data.
glyphEntry(item, scaled) ==
  [name  |-> item.name,
   width |-> TimesGlyphScaling(item.advx),
   o     |-> TimesGlyphScaling(item.advx),
   d     |-> scaled]

\* The body without the test that leaves the space glyph out.
glyphEachStepWithSpace(item, scaled, built) ==
  IF scaled.kind = "TypeError" THEN [built EXCEPT !.kind = "TypeError"]
  ELSE [built EXCEPT !.chars = (item.unicode :> glyphEntry(item, scaled)) @@ @]

\* The $('glyph').each body for one glyph, scaled being glyphScale of its d:
\* every glyph but the space is stored under its unicode attribute, a later
\* glyph replacing an earlier one of that key.
glyphEachStep(item, scaled, built) ==
  IF item.unicode # " "
  THEN IF scaled.kind = "TypeError" THEN [built EXCEPT !.kind = "TypeError"]
       ELSE [built EXCEPT !.chars = (item.unicode :> glyphEntry(item, scaled)) @@ @]
  ELSE built

\* $('glyph').each of getFontData, from glyph index on; glyphScale raising
\* ends it.
RECURSIVE glyphEach(_, _, _, _)
glyphEach(glyphs, index, built, height) ==
  IF index > Len(glyphs) \/ built.kind = "TypeError" THEN built
  ELSE glyphEach(glyphs, index + 1,
         glyphEachStep(glyphs[index], glyphScale(glyphs[index].d, height), built),
         height)

\* The font object of an outline font, from the outcome of the glyph loop.
outlineFont(built) ==
  IF built.kind = "TypeError" THEN [kind |-> "TypeError"]
  ELSE [kind |-> "font", type |-> "outline", hasChars |-> TRUE, chars |-> built.chars]

\* getFontData(fontName): the font object, or the error raised on the way.
\* type tells which getChar the object carries; an inherited member of
\* exports.fonts takes the first branch and has no chars.
getFontData(fontName) ==
  IF Truthy(CompactFonts, fontName)
  THEN IF fontName \in DOMAIN CompactFonts
       THEN [kind |-> "font", type |-> "compact", hasChars |-> TRUE,
             chars |-> CompactFonts[fontName].chars]
       ELSE [kind |-> "font", type |-> "compact", hasChars |-> FALSE,
             chars |-> <<>>]
  ELSE IF Truthy(OutlineFonts, fontName)
  THEN outlineFont(glyphEach(OutlineFonts[fontName].glyphs, 1,
                              [kind |-> "ok", chars |-> <<>>],
                              OutlineFonts[fontName].info.unitsPerEm))
  ELSE [kind |-> "font", type |-> "invalid", hasChars |-> FALSE, chars |-> <<>>]

\* font.getChar(char): a glyph, absent (null or undefined), or the TypeError
\* of indexing chars when the font has none.
getChar(font, char) ==
  CASE font.type = "invalid" -> [kind |-> "absent"]
    [] font.type = "compact" ->
         IF ~font.hasChars THEN [kind |-> "TypeError"]
         ELSE IF (charCodeAt(char) - 33) \in DOMAIN font.chars
              THEN [kind |-> "glyph", g |-> font.chars[charCodeAt(char) - 33]]
              ELSE [kind |-> "absent"]
    [] font.type = "outline" ->
         IF char \in DOMAIN font.chars
         THEN [kind |-> "glyph", g |-> font.chars[char]]
         ELSE [kind |-> "absent"]

(***************************************************************************)
(* renderTextSVG                                                           *)
(***************************************************************************)

\* An options object is a function from its keys; a key it lacks reads as
\* undefined.
Has(obj, key) == key \in DOMAIN obj

\* A numeric option is truthy when present and not 0.
TruthyOption(obj, key) == Has(obj, key) /\ obj[key] # 0

\* {...defaults, ...rawOptions}
MergeOptions(defaults, rawOptions) == rawOptions @@ defaults

\* The defaults of renderTextSVG.
SvgDefaults == [font |-> "futural", charWidth |-> 10, charHeight |-> 28, scale |-> 1]

\* The defaults of renderTextArray.
ArrayDefaults == [font |-> "futural"]

\* charOffset of the letter loop: parseInt(char.o, 10) for a glyph, and
\* options.charWidth otherwise.
charOffsetOf(opts, char) ==
  IF char.kind = "glyph" THEN parseInt(char.g.o) ELSE Num(opts.charWidth)

\* The letter placed at the pen of st.
placeAtPen(letter, char, st) ==
  [st EXCEPT !.paths = IF char.kind = "glyph"
                       THEN Append(@, [d |-> char.g.d, left |-> st.left,
                                       top |-> st.top, letter |-> letter])
                       ELSE @]

\* A body that reads fromRight: the pen retreats by the advance before the
\* glyph is placed.
letterStepRetreating(opts, letter, char, st) ==
  IF char.kind = "TypeError" THEN [st EXCEPT !.error = TRUE]
  ELSE IF Has(opts, "fromRight") /\ opts.fromRight
  THEN placeAtPen(letter, char,
         [st EXCEPT !.left =
            IF @.nan \/ charOffsetOf(opts, char).nan THEN NaN
            ELSE Num(@.v - (charOffsetOf(opts, char).v + opts.charWidth))])
  ELSE [placeAtPen(letter, char, st) EXCEPT
          !.left = JsAdd(st.left, JsAdd(charOffsetOf(opts, char), Num(opts.charWidth)))]

\* The body of the letter loop of renderTextSVG for one letter, char being
\* font.getChar of it: st holds offset (left, top) and the paths appended to
\* $groupLine so far.
letterStep(opts, letter, char, st) ==
  IF char.kind = "TypeError" THEN [st EXCEPT !.error = TRUE]
  ELSE [st EXCEPT
          !.paths = IF char.kind = "glyph"
                    THEN Append(@, [d |-> char.g.d, left |-> st.left, top |-> st.top,
                                    letter |-> letter])
                    ELSE @,
          !.left  = JsAdd(st.left, JsAdd(charOffsetOf(opts, char), Num(opts.charWidth)))]

\* The letter loop of renderTextSVG over word, from index i on.
RECURSIVE letterLoop(_, _, _, _, _)
letterLoop(font, opts, word, i, st) ==
  IF i > Len(word) \/ st.error THEN st
  ELSE letterLoop(font, opts, word, i + 1,
         letterStep(opts, word[i], getChar(font, word[i]), st))

\* centerWidth / 2 - offset.left / 2, in halves.
CenterOffset(opts, left) ==
  IF left.nan THEN NaN ELSE Num(opts.centerWidth - left.v)

\* The end of the word loop's body, st being the state after the word's
\* letters.  Past wrapWidth the line is centred, the offset moved to the next
\* line, and then lineCount++ assigns to a const: the TypeError ends the
\* render before a further line group is made.
wrapStep(opts, st) ==
  IF st.error THEN st
  ELSE IF TruthyOption(opts, "wrapWidth") /\ JsGreater(st.left, Num(opts.wrapWidth))
  THEN [st EXCEPT
          !.lineTransform = IF TruthyOption(opts, "centerWidth")
                            THEN [set |-> TRUE, x |-> CenterOffset(opts, st.left)]
                            ELSE @,
          !.left = Num(0),
          !.top = @ + opts.charHeight,
          !.error = TRUE]
  ELSE [st EXCEPT !.left = JsAdd(@, Num(opts.charWidth * 2))]

\* The word loop of renderTextSVG, from word w on.
RECURSIVE wordLoop(_, _, _, _, _)
wordLoop(font, opts, words, w, st) ==
  IF w > Len(words) \/ st.error THEN st
  ELSE wordLoop(font, opts, words, w + 1,
         wrapStep(opts, letterLoop(font, opts, words[w], 1, st)))

\* The constant lineCount of renderTextSVG.
lineCount == 0

\* The state the try block of renderTextSVG starts its loops in.
InitialLayout ==
  [error |-> FALSE, left |-> Num(0), top |-> 0, paths |-> <<>>,
   lineTransform |-> [set |-> FALSE, x |-> Num(0)]]

\* The end of the try block: the last line is centred in centerWidth.
centerLast(opts, st) ==
  IF ~st.error /\ TruthyOption(opts, "centerWidth")
  THEN [st EXCEPT !.lineTransform = [set |-> TRUE, x |-> CenterOffset(opts, st.left)]]
  ELSE st

\* The body of the try block of renderTextSVG, font being getFontData of
\* options.font; error tells that it raised: getFontData did, options.pos
\* is undefined, text has no split method, or a loop did.
svgTry(txt, opts, font) ==
  IF font.kind = "TypeError" \/ ~Has(opts, "pos") \/ txt.type # "string"
  THEN [InitialLayout EXCEPT !.error = TRUE]
  ELSE centerLast(opts, wordLoop(font, opts, split(txt.s, " "), 1, InitialLayout))

\* The id attribute built from options.id, which may be undefined.
IdOf(opts) == IF Has(opts, "id") THEN opts.id ELSE "undefined"

\* What renderTextSVG returns after its try block ended in st: false, or
\* the markup of $.html(), as the outer group, its line groups and their
\* paths.  Together with the markup the final offset is kept for inspection.
svgReturn(opts, st) ==
  IF st.error THEN [kind |-> "false"]
  ELSE [kind   |-> "markup",
        id     |-> IdOf(opts),
        scale  |-> opts.scale,
        x      |-> opts.pos.x,
        \* translate y, in halves
        y      |-> IF TruthyOption(opts, "centerHeight")
                   THEN opts.centerHeight - opts.charHeight * (lineCount + 1)
                          + 2 * opts.pos.y
                   ELSE 2 * opts.pos.y,
        lines  |-> << [id |-> <<IdOf(opts), "-line-", lineCount>>,
                       transform |-> st.lineTransform,
                       paths |-> st.paths] >>,
        offset |-> [left |-> st.left, top |-> st.top]]

\* renderTextSVG(text, rawOptions)
renderTextSVG(txt, rawOptions) ==
  svgReturn(MergeOptions(SvgDefaults, rawOptions),
            svgTry(txt, MergeOptions(SvgDefaults, rawOptions),
                   getFontData(MergeOptions(SvgDefaults, rawOptions).font)))

(***************************************************************************)
(* renderTextArray                                                         *)
(***************************************************************************)

\* A replace that drops each CR LF pair instead of leaving its line feed.
RECURSIVE replaceCRLFByNothing(_)
replaceCRLFByNothing(s) ==
  IF Len(s) < 2 THEN s
  ELSE IF s[1] = "\r" /\ s[2] = "\n"
       THEN replaceCRLFByNothing(SubSeq(s, 3, Len(s)))
       ELSE <<s[1]>> \o replaceCRLFByNothing(Tail(s))

\* text.replace(/\r\n/g, "\n")
RECURSIVE replaceCRLF(_)
replaceCRLF(s) ==
  IF Len(s) < 2 THEN s
  ELSE IF s[1] = "\r" /\ s[2] = "\n"
       THEN <<"\n">> \o replaceCRLF(SubSeq(s, 3, Len(s)))
       ELSE <<s[1]>> \o replaceCRLF(Tail(s))

\* A body that pushes a space record for every unresolved character that
\* is no newline.
arrayStepSpaceForAny(letter, char, st) ==
  IF char.kind = "TypeError" THEN [kind |-> "false"]
  ELSE IF char.kind = "glyph"
       THEN [st EXCEPT !.out = Append(@, [type |-> letter, d |-> char.g.d, o |-> char.g.o])]
       ELSE IF letter = "\n"
            THEN [st EXCEPT !.out = Append(@, [type |-> "newline"])]
            ELSE [st EXCEPT !.out = Append(@, [type |-> "space"])]

\* The body of the letter loop of renderTextArray for one letter, char being
\* font.getChar of it; st holds out.  getChar raising ends the render with
\* false.
arrayStep(letter, char, st) ==
  IF char.kind = "TypeError" THEN [kind |-> "false"]
  ELSE IF char.kind = "glyph"
       THEN [st EXCEPT !.out = Append(@, [type |-> letter, d |-> char.g.d, o |-> char.g.o])]
       ELSE IF letter = "\n"
            THEN [st EXCEPT !.out = Append(@, [type |-> "newline"])]
            ELSE IF letter = " "
                 THEN [st EXCEPT !.out = Append(@, [type |-> "space"])]
                 ELSE st

\* The letter loop of renderTextArray from index i on.
RECURSIVE arrayLoop(_, _, _, _)
arrayLoop(font, s, i, st) ==
  IF i > Len(s) \/ st.kind = "false" THEN st
  ELSE arrayLoop(font, s, i + 1, arrayStep(s[i], getChar(font, s[i]), st))

\* The try block of renderTextArray, font being getFontData of options.font.
arrayTry(s, font) ==
  IF font.kind = "TypeError" THEN [kind |-> "false"]
  ELSE arrayLoop(font, replaceCRLF(s), 1, [kind |-> "array", out |-> <<>>])

\* renderTextArray(text, rawOptions): the array, false, or the TypeError of
\* text.replace, which is called before the try block is entered.
renderTextArray(txt, rawOptions) ==
  IF txt.type # "string" THEN [kind |-> "TypeError"]
  ELSE arrayTry(txt.s, getFontData(MergeOptions(ArrayDefaults, rawOptions).font))

(***************************************************************************)
(* The renderers: one call per behaviour                                   *)
(***************************************************************************)

\* The text arguments: every string up to MaxTextLen, and a value that is
\* no string.
TextArgs ==
  {[type |-> "string", s |-> s] : s \in StringsUpTo(TextChars, MaxTextLen)}
    \cup {[type |-> "undefined", s |-> <<>>]}

FontOptions == {<<>>} \cup {[font |-> f] : f \in FontNames \ {"futural"}}

PlaceOptions == {<<>>, [id |-> "mytext", pos |-> [x |-> 50, y |-> 50]]}

LayoutOptions ==
  {<<>>, [charWidth |-> 1], [wrapWidth |-> 30], [wrapWidth |-> 30, centerWidth |-> 200],
   [centerWidth |-> 200, centerHeight |-> 100]}

DirectionOptions == {<<>>, [fromRight |-> TRUE, width |-> 400]}

RawOptions ==
  {f @@ p @@ l @@ r : f \in FontOptions, p \in PlaceOptions,
                      l \in LayoutOptions, r \in DirectionOptions}

Init ==
  /\ pc = "start"
  /\ fn = "none"
  /\ text \in TextArgs
  /\ options \in RawOptions
  /\ d = <<>>
  /\ result = [kind |-> "none"]

CallRenderTextSVG ==
  /\ pc = "start"
  /\ pc' = "done"
  /\ fn' = "renderTextSVG"
  /\ result' = renderTextSVG(text, options)
  /\ UNCHANGED <<text, options, d>>

CallRenderTextArray ==
  /\ pc = "start"
  /\ pc' = "done"
  /\ fn' = "renderTextArray"
  /\ result' = renderTextArray(text, options)
  /\ UNCHANGED <<text, options, d>>

\* getFontData for the font the merged options name.
CallGetFontData ==
  /\ pc = "start"
  /\ pc' = "done"
  /\ fn' = "getFontData"
  /\ result' = getFontData(MergeOptions(ArrayDefaults, options).font)
  /\ UNCHANGED <<text, options, d>>

Next == CallRenderTextSVG \/ CallRenderTextArray \/ CallGetFontData

Spec == Init /\ [][Next]_vars

(***************************************************************************)
(* The path normaliser on its own                                          *)
(***************************************************************************)

InitPath ==
  /\ pc = "start"
  /\ fn = "none"
  /\ text = [type |-> "string", s |-> <<>>]
  /\ options = <<>>
  /\ d \in StringsUpTo(PathChars, MaxDLen)
  /\ result = [kind |-> "none"]

CallCleanD ==
  /\ pc = "start"
  /\ pc' = "done"
  /\ fn' = "cleanD"
  /\ result' = [kind |-> "string", s |-> cleanD(d)]
  /\ UNCHANGED <<text, options, d>>

CallGlyphScale ==
  /\ pc = "start"
  /\ pc' = "done"
  /\ fn' = "glyphScale"
  /\ result' = glyphScale(d, UnitsPerEm)
  /\ UNCHANGED <<text, options, d>>

NextPath == CallCleanD \/ CallGlyphScale

SpecPath == InitPath /\ [][NextPath]_vars

(***************************************************************************)
(* Properties of the renderers (specification Spec)                        *)
(***************************************************************************)

Done(f) == pc = "done" /\ fn = f

\* The options renderTextSVG works with.
Opts == MergeOptions(SvgDefaults, options)

\* The font either renderer resolves.
FontName == MergeOptions(ArrayDefaults, options).font

IsKeyOfATable(fontName) == fontName \in DOMAIN CompactFonts \cup DOMAIN OutlineFonts

\* A record of renderTextArray that carries a glyph.
IsGlyphRecord(rec) == "d" \in DOMAIN rec

\* The paths of all line groups of a markup, in document order.
RECURSIVE AllPaths(_)
AllPaths(lines) ==
  IF lines = <<>> THEN <<>> ELSE Head(lines).paths \o AllPaths(Tail(lines))

\* t with every carriage return that a line feed follows left out.
RECURSIVE Folded(_)
Folded(t) ==
  IF t = <<>> THEN <<>>
  ELSE IF Len(t) >= 2 /\ t[1] = "\r" /\ t[2] = "\n" THEN Folded(Tail(t))
  ELSE <<Head(t)>> \o Folded(Tail(t))

Count(t, char) == Cardinality({i \in 1..Len(t) : t[i] = char})

\* C1: every call of renderTextSVG and of renderTextArray returns its result
\* or false, whatever the text and the options; no exception reaches the
\* caller, and renderTextSVG without pos returns false.
C1_NoExceptionReachesCaller ==
  /\ Done("renderTextSVG") =>
       /\ result.kind \in {"markup", "false"}
       /\ ~Has(options, "pos") => result.kind = "false"
  /\ Done("renderTextArray") => result.kind \in {"array", "false"}

\* C2 as stated: renderTextArray emits exactly one record per character of
\* the normalized text: a glyph record for a character that resolves, a
\* newline marker for an unresolved newline and a space record for every
\* other unresolved character, so the array is as long as the text.
C2_OneRecordPerCharacter ==
  Done("renderTextArray") /\ result.kind = "array" =>
    LET t    == Folded(text.s)
        font == getFontData(FontName)
    IN /\ Len(result.out) = Len(t)
       /\ \A i \in 1..Len(t) :
            LET rec == result.out[i] IN
            IF getChar(font, t[i]).kind = "glyph"
            THEN IsGlyphRecord(rec) /\ rec.type = t[i]
            ELSE IF t[i] = "\n" THEN rec = [type |-> "newline"]
                 ELSE rec = [type |-> "space"]

\* The records C2, amended, expects of one character.
C2_RecordsOf(font, char) ==
  LET got == getChar(font, char) IN
  IF got.kind = "glyph" THEN << [type |-> char, d |-> got.g.d, o |-> got.g.o] >>
  ELSE IF char = "\n" THEN << [type |-> "newline"] >>
  ELSE IF char = " " THEN << [type |-> "space"] >>
  ELSE <<>>

RECURSIVE C2_RecordsOfText(_, _)
C2_RecordsOfText(font, t) ==
  IF t = <<>> THEN <<>>
  ELSE C2_RecordsOf(font, Head(t)) \o C2_RecordsOfText(font, Tail(t))

\* C2, amended: renderTextArray emits, in text order, one glyph record per
\* character of the normalized text that resolves, one newline marker per
\* unresolved newline, one space record per unresolved blank, and no record
\* for any other unresolved character; the array is as long as the number of
\* characters that resolve or are a newline or a blank.
C2_RecordsSkipOtherUnresolved ==
  Done("renderTextArray") /\ result.kind = "array" =>
    LET t    == Folded(text.s)
        font == getFontData(FontName)
    IN /\ result.out = C2_RecordsOfText(font, t)
       /\ Len(result.out) =
            Cardinality({i \in 1..Len(t) :
              getChar(font, t[i]).kind = "glyph" \/ t[i] \in {"\n", " "}})

\* C2, witness: a text with a resolved letter and a lone carriage return gave
\* an array shorter than the normalized text.
C2_Witness ==
  /\ Done("renderTextArray") /\ result.kind = "array"
  /\ FontName = "futural"
  /\ \E i \in 1..Len(text.s) : text.s[i] = "A"
  /\ Folded(text.s)[Len(Folded(text.s))] = "\r"
  /\ Len(result.out) < Len(Folded(text.s))
  /\ Len(result.out) > 0

\* C3: for a font identifier that is a key of neither table, getFontData
\* returns a font whose getChar is absent for every character, renderTextSVG
\* (given id and pos) returns markup without a path, and renderTextArray
\* returns an array without a glyph record; neither returns false.
C3_UnknownFontIsNotFatal ==
  ~IsKeyOfATable(FontName) /\ text.type = "string" =>
    /\ Done("getFontData") =>
         /\ result.kind = "font"
         /\ \A char \in TextChars : getChar(result, char).kind = "absent"
    /\ Done("renderTextSVG") /\ Has(options, "id") /\ Has(options, "pos") =>
         /\ result.kind = "markup"
         /\ AllPaths(result.lines) = <<>>
    /\ Done("renderTextArray") =>
         /\ result.kind = "array"
         /\ \A i \in 1..Len(result.out) : ~IsGlyphRecord(result.out[i])

\* C4 as stated: the glyph table of an outline font holds the space
\* character as an entry of its own (width set, no path data), and getChar
\* of the blank returns it.
C4_SpaceIsARealEntry ==
  Done("getFontData") /\ result.kind = "font" /\ result.type = "outline" =>
    /\ " " \in DOMAIN result.chars
    /\ getChar(result, " ").kind = "glyph"
    /\ ~getChar(result, " ").g.width.nan
    /\ getChar(result, " ").g.d.kind = "unchanged"

\* The unicode attributes of the glyphs a font file declares.
DeclaredGlyphs(fontName) ==
  {OutlineFonts[fontName].glyphs[i].unicode :
     i \in 1..Len(OutlineFonts[fontName].glyphs)}

\* C4, amended: the glyph table getFontData builds for an outline font never
\* holds the space character, also when the font file declares a space
\* glyph: getChar of the blank is absent, and every other declared glyph is
\* an entry.
C4_SpaceIsLeftOut ==
  Done("getFontData") /\ result.kind = "font" /\ result.type = "outline" =>
    /\ " " \notin DOMAIN result.chars
    /\ getChar(result, " ").kind = "absent"
    /\ DOMAIN result.chars = DeclaredGlyphs(FontName) \ {" "}

\* C4, witness: getFontData built the table of an outline font whose file
\* declares a space glyph.
C4_Witness ==
  /\ Done("getFontData") /\ result.kind = "font" /\ result.type = "outline"
  /\ " " \in DeclaredGlyphs(FontName)
  /\ "A" \in DOMAIN result.chars

\* The pen after the first word of the text, as renderTextSVG lays it out.
C5_PenAfterFirstWord ==
  letterLoop(getFontData(FontName), Opts, split(text.s, " ")[1], 1, InitialLayout).left

\* C5: with wrapWidth set, a pen past wrapWidth after a word starts a new
\* line and the render goes on: the call returns markup, never false, and a
\* second line group "<id>-line-1" follows the first.
C5_WrapStartsANewLine ==
  /\ Done("renderTextSVG") /\ text.type = "string" /\ Has(options, "pos")
  /\ IsKeyOfATable(FontName)
  /\ TruthyOption(Opts, "wrapWidth")
  /\ JsGreater(C5_PenAfterFirstWord, Num(Opts.wrapWidth))
  => /\ result.kind = "markup"
     /\ Len(result.lines) >= 2
     /\ result.lines[1].id = <<IdOf(Opts), "-line-", 0>>
     /\ result.lines[2].id = <<IdOf(Opts), "-line-", 1>>

\* The options without the right-to-left flag and the canvas width.
LeftToRight(rawOptions) ==
  [k \in DOMAIN rawOptions \ {"fromRight", "width"} |-> rawOptions[k]]

\* C6 as stated: with fromRight set every glyph is placed after the pen has
\* retreated from the right edge, so each glyph's x differs from that of the
\* left-to-right render of the same text, the pen totals matching in
\* magnitude.
C6_RightToLeftMirrors ==
  Done("renderTextSVG") /\ Has(options, "fromRight") /\ result.kind = "markup" =>
    LET ltr == renderTextSVG(text, LeftToRight(options))
        rtl == AllPaths(result.lines)
    IN /\ ltr.kind = "markup"
       /\ Len(rtl) = Len(AllPaths(ltr.lines))
       /\ \A i \in 1..Len(rtl) : rtl[i].left # AllPaths(ltr.lines)[i].left
       /\ result.offset.left = ltr.offset.left

\* C6, amended: renderTextSVG reads neither fromRight nor width.  With
\* fromRight set and a canvas width given, the render is the left-to-right
\* render of the same text and remaining options: every glyph has the same x
\* in both, and the pen totals are equal.
C6_FromRightIsIgnored ==
  Done("renderTextSVG") /\ Has(options, "fromRight") =>
    LET ltr == renderTextSVG(text, LeftToRight(options)) IN
    /\ result = ltr
    /\ result.kind = "markup" =>
         /\ \A i \in 1..Len(AllPaths(result.lines)) :
              AllPaths(result.lines)[i].left = AllPaths(ltr.lines)[i].left

\* C6, witness: a render with fromRight set and a canvas width placed two
\* glyphs.
C6_Witness ==
  /\ Done("renderTextSVG") /\ result.kind = "markup"
  /\ Has(options, "fromRight") /\ options.fromRight /\ Has(options, "width")
  /\ Len(AllPaths(result.lines)) >= 2

\* C7: renderTextArray of a text equals renderTextArray of the text with
\* every CR LF pair replaced by one LF, for every font; each CR LF pair
\* yields one newline marker, so there are as many markers as line feeds.
\* (No font of the tables holds a glyph for the carriage return or the line
\* feed.)
C7_CRLFFolding ==
  Done("renderTextArray") /\ text.type = "string" =>
    /\ result = renderTextArray([type |-> "string", s |-> Folded(text.s)], options)
    /\ result.kind = "array" =>
         Cardinality({i \in 1..Len(result.out) : result.out[i] = [type |-> "newline"]})
           = Count(text.s, "\n")

\* C7, witness: a text with a letter before a CR LF pair was rendered to an
\* array.
C7_Witness ==
  /\ Done("renderTextArray") /\ result.kind = "array"
  /\ \E i \in 1..(Len(text.s) - 2) :
       text.s[i] = "A" /\ text.s[i + 1] = "\r" /\ text.s[i + 2] = "\n"
  /\ Len(result.out) = 2

\* The advance C8 names for one character of a word.
C8_Advance(font, char) ==
  LET got == getChar(font, char) IN
  IF got.kind = "glyph" THEN JsAdd(parseInt(got.g.o), Num(Opts.charWidth))
  ELSE Num(Opts.charWidth + Opts.charWidth)

\* The pen C8 expects after the characters of t, a blank being a word break.
RECURSIVE C8_PenAfter(_, _)
C8_PenAfter(font, t) ==
  IF t = <<>> THEN Num(0)
  ELSE LET before == C8_PenAfter(font, SubSeq(t, 1, Len(t) - 1))
           char   == t[Len(t)]
       IN IF char = " " THEN JsAdd(before, Num(2 * Opts.charWidth))
          ELSE JsAdd(before, C8_Advance(font, char))

\* The indices of the characters of t that resolve, in text order.
RECURSIVE C8_Resolved(_, _, _)
C8_Resolved(font, t, i) ==
  IF i > Len(t) THEN <<>>
  ELSE IF t[i] # " " /\ getChar(font, t[i]).kind = "glyph"
       THEN <<i>> \o C8_Resolved(font, t, i + 1)
       ELSE C8_Resolved(font, t, i + 1)

\* C8: in a left-to-right render without wrapping, after any prefix of the
\* text the pen's left offset is a finite number, the sum of the advances of
\* the characters consumed; every path carries that offset and its source
\* character, also after a glyph that is unresolved or has no width.
C8_PenIsFiniteSumOfAdvances ==
  /\ Done("renderTextSVG") /\ result.kind = "markup"
  /\ ~TruthyOption(Opts, "wrapWidth")
  => LET font  == getFontData(FontName)
         t     == text.s
         paths == AllPaths(result.lines)
         at    == C8_Resolved(font, t, 1)
     IN /\ ~result.offset.left.nan
        /\ result.offset.left
             = JsAdd(C8_PenAfter(font, t), Num(2 * Opts.charWidth))
        /\ Len(paths) = Len(at)
        /\ \A k \in 1..Len(paths) :
             /\ ~paths[k].left.nan
             /\ paths[k].left = C8_PenAfter(font, SubSeq(t, 1, at[k] - 1))
             /\ paths[k].letter = t[at[k]]

(***************************************************************************)
(* Properties of the path normaliser (specification SpecPath)              *)
(***************************************************************************)

IsLetter(char) == ~IsNumberPart(char) /\ ~IsDigit(char)

\* The length of the number s begins with: sign, digits, and a period with
\* its digits; 0 when s begins with no number.
NumberPrefixLen(s) ==
  LET signed == s # <<>> /\ Head(s) = "-"
      body   == IF signed THEN Tail(s) ELSE s
      ni     == digitRun(body)
      rest   == SubSeq(body, ni + 1, Len(body))
      dot    == rest # <<>> /\ Head(rest) = "."
      nf     == IF dot THEN digitRun(Tail(rest)) ELSE 0
  IN IF ni = 0 /\ nf = 0 THEN 0
     ELSE (IF signed THEN 1 ELSE 0) + ni + (IF dot THEN 1 + nf ELSE 0)

\* s is path data: command letters, numbers and blanks, one after another.
RECURSIVE IsPathData(_)
IsPathData(s) ==
  IF s = <<>> THEN TRUE
  ELSE IF Head(s) = " " \/ IsLetter(Head(s)) THEN IsPathData(Tail(s))
  ELSE NumberPrefixLen(s) > 0 /\ IsPathData(SubSeq(s, NumberPrefixLen(s) + 1, Len(s)))

\* A token that is exactly one command letter or exactly one number.
WellFormedToken(tok) ==
  \/ Len(tok) = 1 /\ IsLetter(tok[1])
  \/ tok # <<>> /\ NumberPrefixLen(tok) = Len(tok)

\* The scale pass with X and Y taking turns after each command letter.
RECURSIVE C9_Alternating(_, _, _, _)
C9_Alternating(vals, i, out, coord) ==
  IF i > Len(vals) THEN out
  ELSE LET pf == parseFloat(vals[i]) IN
    IF pf.nan THEN C9_Alternating(vals, i + 1, Append(out, OpToken(vals[i])), "x")
    ELSE IF coord = "x"
         THEN C9_Alternating(vals, i + 1, Append(out, NumToken(scaleX(pf))), "y")
         ELSE C9_Alternating(vals, i + 1,
                Append(out, NumToken(scaleY(pf, UnitsPerEm))), "x")

\* C9: glyphScale reads the numbers after a command letter as X, Y, X, Y,
\* ...: the 1st, 3rd, ... is emitted as value x scale, the 2nd, 4th, ... as
\* (height - value) x scale, restarting at X after every command letter;
\* every number of the input yields one number of the output.
C9_NumbersAlternateXY ==
  /\ Done("glyphScale") /\ result.kind = "ok"
  /\ IsPathData(d) /\ IsLetter(Head(d))
  /\ \A i \in 1..Len(split(cleanD(d), " ")) : WellFormedToken(split(cleanD(d), " ")[i])
  => result.out = C9_Alternating(split(cleanD(d), " "), 1, <<>>, "x")

RECURSIVE C10_Separated(_, _)
C10_Separated(str, i) ==
  IF i > Len(str) THEN <<>>
  ELSE (IF i > 1 /\ (\/ IsLetter(str[i])
                     \/ IsLetter(str[i - 1]) /\ (IsDigit(str[i]) \/ str[i] = "-"))
        THEN <<" ", str[i]>> ELSE <<str[i]>>) \o C10_Separated(str, i + 1)

====
